---- MODULE Spec2Model ----
(***************************************************************************)
(* PX4FirmwareUploader (src/ui/configuration/PX4FirmwareUploader.cc): the  *)
(* bootloader upload driver thread, its blocking reads against the serial  *)
(* device, and the device as its environment.                              *)
(*                                                                         *)
(* A byte in a receive queue is its value 0..255, plus StaleMark when the  *)
(* device emitted it before the command now being checked was written      *)
(* (a history tag: the code never reads it).                               *)
(***************************************************************************)
EXTENDS Integers, Sequences, FiniteSets, TLC

\* ------------------------------------------------------------ bounds
\* declared image_size of the firmware container (bytes)
ImageSize == 130
\* bytes of OTP read by the driver (512 in the source, line 368)
OtpBytes == 8
\* serial ports the host can enumerate
NPorts == 2
\* byte arrays writeBytes accepts in one run of the link, and their longest
MaxWrites == 2
MaxArray == 2
\* bytes the link receives in one run
MaxReceived == 1
\* most bytes counted, and most whole seconds elapsed, when the statistics are read
MaxCounted == 4
MaxElapsed == 3
\* port names the settings and the callers of setPortName use
MaxPortName == 2
\* longest byte sequence get_sync is tried on alone
MaxFooterInput == 3
\* longest image of the containers loadFile is tried on alone
MaxImageLen == 5
\* chunks of the image the programming stage is tried on alone
MaxProgChunks == 51
\* the byte values of those images
SmallBytes == {0, 7, 255}
\* bytes the device may have emitted that the driver has not yet consumed

\* ------------------------------------------------------------ protocol
PROTO_INSYNC == 18
PROTO_OK == 16
PROTO_FAILED == PROTO_OK + 1
PROTO_EOC == 32
PROTO_GET_SYNC == 33
PROTO_GET_DEVICE == 34
PROTO_CHIP_ERASE == 35
PROTO_PROG_MULTI == 39
PROTO_REBOOT == 48
PROTO_GET_OTP == 42
PROTO_GET_SN == 43
PROTO_DEVICE_BL_REV == 1
PROTO_DEVICE_BOARD_ID == 2
PROTO_DEVICE_BOARD_REV == 3
PROTO_DEVICE_FW_SIZE == 4
\* for (int retry=0;retry<5;retry++)
MaxSyncRetry == 5
\* tempFile->read(60)
ChunkSize == 60
\* if (failure > 2)
MaxFailure == 2
\* for (int i=0;i<12;i+=4)
SnBytes == 12
\* if (bootloaderrev >= 4)
OtpMinRev == 4
\* if (counter++ % 50 == 0)
ProgressEvery == 50

\* while earlier bytes are still pending, the device's reply may bring the
\* pending bytes to at most this many
MaxQueue == 4
\* reads that may time out while bytes of a reply are still on their way
MaxLate == 1

StaleMark == 255 + 1
Val(b) == b % StaleMark
IsStale(b) == b >= StaleMark
Vals(s) == IF s = <<>> THEN <<>> ELSE [i \in 1..Len(s) |-> Val(s[i])]
Aged(s) == IF s = <<>> THEN <<>> ELSE [i \in 1..Len(s) |-> Val(s[i]) + StaleMark]
Drop(s, k) == SubSeq(s, k + 1, Len(s))
Take(s, k) == SubSeq(s, 1, k)
AnyStale(s) == \E i \in DOMAIN s : IsStale(s[i])
Min(a, b) == IF a < b THEN a ELSE b

Ports == 1..NPorts

\* ------------------------------------------------------------ firmware image
\* the decompressed image of the container: ImageSize bytes
Image == [i \in 1..ImageSize |-> (7 * i) % 251]

\* the containers offered to loadFile: the decompressed image has the declared
\* size or is one byte short
Files ==
    {[image |-> Take(Image, len), image_size |-> ImageSize] : len \in {ImageSize - 1, ImageSize}}

\* every container with a short image over a few byte values, declared size
\* right or wrong
SmallFiles ==
    {[image |-> im, image_size |-> n] :
        im \in UNION {[1..k -> SmallBytes] : k \in 0..MaxImageLen}, n \in 0..MaxImageLen}

\* a padding that appends at most one byte
PadTo4_Once(bytes) == IF Len(bytes) % 4 # 0 THEN Append(bytes, 255) ELSE bytes

\* while ((uncompressed.count() % 4) != 0) uncompressed.append(0xFF);
RECURSIVE PadTo4(_)
PadTo4(bytes) == IF Len(bytes) % 4 # 0 THEN PadTo4(Append(bytes, 255)) ELSE bytes

\* ------------------------------------------------------------ the device
FooterOK == <<PROTO_INSYNC, PROTO_OK>>
FooterFailed == <<PROTO_INSYNC, PROTO_FAILED>>
U32LE(v) == <<v % 256, (v \div 256) % 256, (v \div 65536) % 256, (v \div 16777216) % 256>>

\* what a bootloader may answer to a command that expects only the footer:
\* nothing, the footer, or a refusal
FooterReplies == {<<>>, FooterOK, FooterFailed}

\* the values a device reports for a GET_DEVICE field
DeviceValues(field) ==
    CASE field = PROTO_DEVICE_BL_REV -> {3, 5}
      [] OTHER -> {1}

\* what a bootloader may answer to a command that expects 4 bytes and the footer
ValueReplies(words) ==
    {<<>>, FooterOK, FooterFailed}
        \cup UNION {{w, w \o FooterOK} : w \in words}

\* the OTP words a device may hold at an address (80 88 52 0 is the header "PX4\0")
OtpWords(addr) ==
    IF addr = 0 THEN {<<80, 88, 52, 0>>, <<80, 1, 1, 1>>, <<1, 1, 1, 1>>}
    ELSE {<<0, 0, 0, 0>>}

SnWords(addr) == {<<1, 0, 0, 0>>}

\* ------------------------------------------------------------ receive queues
(* q.buf is m_serialBuffer, q.port the bytes the serial port holds unread,  *)
(* q.wire the bytes the device has emitted that have not reached the port.  *)
Queues(b, p, w) == [buf |-> b, port |-> p, wire |-> w]
Pending(q) == Len(q.buf) + Len(q.port) + Len(q.wire)

\* m_port->clear(), and the loops while(m_port->bytesAvailable()) read(1):
\* whatever has reached the port by then is discarded
ClearPort(q) == {Queues(q.buf, <<>>, Drop(q.wire, j)) : j \in 0..Len(q.wire)}

\* m_port->write(command): the device emits its reply behind what it emitted
\* before; every byte emitted before this write is from now on a stale byte
DeviceSend(q, replies) ==
    {Queues(Aged(q.buf), Aged(q.port), Aged(q.wire) \o r) :
        r \in {x \in replies : x = <<>> \/ Pending(q) = 0 \/ Pending(q) + Len(x) <= MaxQueue}}

\* readBytes(num, timeout, buf), lines 84-107: the outcomes [n, got, q, late].
\* late = 1 when the read timed out with bytes still on the wire; allowed says
\* whether the device may still be that slow.
\* one pass of the wait loop, lines 90-106: waitForReadyRead() returned and
\* readAll() moved what had arrived, k bytes of the wire, to m_serialBuffer
Arrivals(q) ==
    {Queues(q.buf \o q.port \o Take(q.wire, k), <<>>, Drop(q.wire, k)) :
        k \in (IF q.port = <<>> THEN 1 ELSE 0)..Len(q.wire)}

RECURSIVE WaitForBytes(_, _, _)
WaitForBytes(num, q, allowed) ==
    LET expired == IF q.port = <<>> /\ (q.wire = <<>> \/ allowed)
                   THEN {[n |-> -1, got |-> <<>>, q |-> q,
                          late |-> IF q.wire = <<>> THEN 0 ELSE 1]}
                   ELSE {}
    IN expired \cup
       UNION {IF Len(p.buf) >= num
              THEN {[n |-> num, got |-> Take(p.buf, num),
                     q |-> Queues(Drop(p.buf, num), <<>>, p.wire), late |-> 0]}
              ELSE WaitForBytes(num, p, allowed) : p \in Arrivals(q)}

readBytes(num, q, allowed) ==
    IF Len(q.buf) >= num
    THEN {[n |-> num, got |-> Take(q.buf, num),
           q |-> Queues(Drop(q.buf, num), q.port, q.wire), late |-> 0]}
    ELSE WaitForBytes(num, q, allowed)

\* a footer test that rejects only when both bytes are wrong
FooterAccepted_BothWrong(two) == ~(Val(two[1]) # PROTO_INSYNC /\ Val(two[2]) # PROTO_OK)

\* the footer test of get_sync, line 728
FooterAccepted(two) == ~(Val(two[1]) # PROTO_INSYNC \/ Val(two[2]) # PROTO_OK)

\* get_sync(timeout): the outcomes [sync, q, timedOut, staleUsed, late]
get_sync(q, allowed) ==
    {[sync |-> IF r.n # 2 THEN -1 ELSE IF FooterAccepted(r.got) THEN 0 ELSE -1,
      q |-> r.q, timedOut |-> r.n # 2, staleUsed |-> AnyStale(r.got), late |-> r.late] :
        r \in readBytes(2, q, allowed)}

\* an unsigned int, kept as its two 16-bit halves (value = hi * 2^16 + lo)
U32(hi, lo) == [hi |-> hi, lo |-> lo]

\* infobuf[i]: a char of the QByteArray, signed in the build
SChar(b) == IF b >= 128 THEN b - 256 ELSE b

\* a decode without the cast: the char is promoted with its sign
UChar_Missing(c) == c

\* (unsigned char)c
UChar(c) == c % 256

\* a 32-bit int in its two's-complement halves
Int32(v) == U32((v \div 65536) % 65536, v % 65536)

\* x << 16 and x + y in 32 bits
Shl16(x) == U32(x.lo, 0)
Add32(x, y) ==
    U32((x.hi + y.hi + (x.lo + y.lo) \div 65536) % 65536, (x.lo + y.lo) % 65536)

\* *reply = ((unsigned char)infobuf[0]) + ((unsigned char)infobuf[1] << 8)
\*        + ((unsigned char)infobuf[2] << 16) + ((unsigned char)infobuf[3] << 24),
\* computed in int and stored in an unsigned int
DecodeU32(b) ==
    Add32(Add32(Int32(UChar(SChar(Val(b[1])))),
                Int32(UChar(SChar(Val(b[2]))) * 256)),
          Add32(Int32(UChar(SChar(Val(b[3]))) * 65536),
                Shl16(Int32(UChar(SChar(Val(b[4]))) * 256))))

\* int x = read, for an unsigned int read
ToInt32(u) == IF u.hi >= 32768 THEN (u.hi - 65536) * 65536 + u.lo ELSE u.hi * 65536 + u.lo

\* a command that expects only the footer: the outcomes of get_sync
FooterExchange(q0, clear, replies, lateLeft) ==
    UNION {UNION {get_sync(q2, lateLeft > 0) : q2 \in DeviceSend(q1, replies)} :
        q1 \in IF clear THEN ClearPort(q0) ELSE {q0}}

\* a command that expects 4 bytes and the footer is read in two steps
ValueRead(q0, replies, lateLeft) ==
    UNION {UNION {readBytes(4, q2, lateLeft > 0) : q2 \in DeviceSend(q1, replies)} :
        q1 \in ClearPort(q0)}

\* reqInfo from line 66 on, r being what readBytes(4,5000,infobuf) gave: the
\* decode and the footer; the outcomes [ok, read, q, timedOut, staleUsed, late]
InfoReply(r, read, lateLeft) ==
    {[ok |-> s.sync = 0,
      read |-> IF r.n # 4 THEN read ELSE DecodeU32(r.got),
      q |-> s.q,
      timedOut |-> r.n # 4 \/ s.timedOut,
      staleUsed |-> AnyStale(r.got) \/ s.staleUsed,
      late |-> r.late + s.late] : s \in get_sync(r.q, lateLeft - r.late > 0)}

\* reqInfo(infobyte, &reply)
reqInfo(field, q0, read, lateLeft) ==
    UNION {InfoReply(r, read, lateLeft) :
        r \in ValueRead(q0, ValueReplies({U32LE(v) : v \in DeviceValues(field)}), lateLeft)}

\* ------------------------------------------------------------ state
VARIABLES
    pc,             \* where the uploader thread stands in run()
    m_stop,         \* the flag stop() sets
    m_port,         \* the device handle: "unset", "new", "open", "closed", "deleted"
    tempFile,       \* the temporary file: "unset", "closed", "open", "deleted"
    fileData,       \* the bytes written to tempFile
    filePos,        \* tempFile->pos()
    avail,          \* QSerialPortInfo::availablePorts() (the environment)
    portlist,       \* the baseline of port names
    size,           \* the baseline's size
    portnametouse,  \* the port selected (0: none)
    found,
    loc,            \* the locals of run() from the SYNC loop on: retry, read,
                    \* info (bootloaderrev, boardid, boardrev, flashsize by field),
                    \* qidx (the reqInfo call that is next), idx (the i of the OTP
                    \* and serial-number loops), otpbuf (its first word), failure, counter
    q,              \* m_serialBuffer, the port's unread bytes, the wire
    raised,         \* the events emitted so far
    \* history of the run, read by no action
    lastCmd,        \* the last command written: [op, arg]
    lastFrame,      \* the bytes of the last command written
    tick,           \* flips at every command written
    exch,           \* the reads of the last command: [timedOut, staleUsed]
    lates,          \* reads that timed out with bytes still on the wire
    syncCount,      \* SYNC commands written
    syncAcked,      \* this attempt's SYNC passed its footer check
    queried,        \* the fields whose reqInfo returned true in this attempt
    eraseOk,        \* the last ERASE's footer check: "none", "ack", "fail"
    flashed,        \* payload bytes of the chunks acknowledged since the last acknowledged ERASE
    failedChunks,   \* PROGRAM_MULTI commands whose footer check failed
    progress,       \* the acknowledged PROGRAM_MULTI commands of the programming
                    \* stage, and its flashProgress events (history)
    consecFail,     \* of these, the ones since the last acknowledged chunk
    exitCause,      \* why run() returned
    otpOk,          \* the OTP addresses read with an accepted footer in this attempt
    seenGone,       \* baseline ports a size test of the plug loop found missing
    \* inputs and results of calls
    file,           \* the firmware container: [image, image_size], image the
                    \* decompressed bytes and image_size the declared size
    ret,            \* the last call made on its own: [call, val], val what it returned
    \* SerialLink
    link            \* the members of the SerialLink, the position of its I/O thread
                    \* and of the thread calling it, and what the device was handed

plugVars == <<avail, portlist, size, portnametouse, found>>
fileVars == <<fileData, filePos, tempFile>>
progVars == <<flashed, failedChunks, consecFail, progress>>
cmdVars == <<q, lastCmd, lastFrame, tick, exch, lates>>
syncVars == <<syncCount, syncAcked, queried>>
uploaderVars == <<pc, m_stop, m_port, raised, eraseOk, exitCause, loc,
                  plugVars, fileVars, progVars, cmdVars, syncVars,
                  otpOk, seenGone, file, ret>>
vars == <<uploaderVars, link>>

NoCmd == [op |-> 0, arg |-> 0]
NoCall == [call |-> "none", val |-> 0]
NoInfo == [f \in PROTO_DEVICE_BL_REV..PROTO_DEVICE_FW_SIZE |-> 0]
EmptyQueues == Queues(<<>>, <<>>, <<>>)

\* a QMap<QString,int> without entries
NoEntries == [p \in {} |-> 0]

NoStat == [call |-> "none", divisor |-> 0, outcome |-> "none", rate |-> 0]

\* SerialLink::SerialLink(), lines 28-38, with the thread not started; the
\* fields that are not members: rpc and cpc are where the I/O thread and the
\* calling thread stand, cret is where the caller's disconnect() returns to,
\* stoppMutex is who holds m_stoppMutex, dtr is the control line, written and
\* handed are the bytes writeBytes accepted and the bytes the device write
\* accepted, commError is the communicationError signal of the current call,
\* statisticsMutex is the state of m_statisticsMutex and stat is the last
\* statistics call: its divisor and how it ended, m_portName is the (trimmed)
\* name of the current port as a number, lastBaud is the baud rate that was in
\* effect when each port stopped being the current one, misuse is the first
\* call made through m_port while it was NULL or the pointer of a deleted
\* object
SerialLink ==
    [m_port |-> "null", m_stopp |-> FALSE, m_reqReset |-> FALSE,
     m_transmitBuffer |-> <<>>, m_bitsSentTotal |-> 0, m_bitsReceivedTotal |-> 0,
     rpc |-> "idle", cpc |-> "ready", cret |-> "ready", stoppMutex |-> "free",
     dtr |-> FALSE, written |-> <<>>, handed |-> <<>>, commError |-> FALSE,
     statisticsMutex |-> "free", stat |-> NoStat,
     m_portName |-> 1, m_baud |-> -1, m_portBaudMap |-> NoEntries, lastBaud |-> NoEntries,
     misuse |-> "none"]

\* no PROGRAM_MULTI yet: acked counts the acknowledged ones, events are the
\* flashProgress events with the number (from 0) of the acknowledged chunk
\* that raised each, erases counts the ERASE commands written
NoProgress == [acked |-> 0, events |-> <<>>, erases |-> 0]

\* the locals as their declarations leave them (lines 284, 294-301, 360-361, 579-580)
Locals(r) ==
    [retry |-> r, read |-> U32(0, 0), info |-> NoInfo, qidx |-> PROTO_DEVICE_BL_REV,
     idx |-> 0, otpbuf |-> <<0, 0, 0, 0>>, failure |-> 0, counter |-> 0]

\* the uploader after construction, with the environment's part drawn from the
\* sets given: the thread's position, the container, the ports, the queues
UploaderStart(pcs, files, enumerations, queues) ==
    /\ pc \in pcs
    /\ m_stop = FALSE
    /\ m_port = "unset"
    /\ tempFile = "unset"
    /\ fileData = <<>>
    /\ filePos = 0
    /\ avail \in enumerations
    /\ portlist = {}
    /\ size = 0
    /\ portnametouse = 0
    /\ found = FALSE
    /\ loc = Locals(0)
    /\ q \in queues
    /\ raised = {}
    /\ lastCmd = NoCmd
    /\ lastFrame = <<>>
    /\ tick = 0
    /\ exch = [timedOut |-> FALSE, staleUsed |-> FALSE]
    /\ lates = 0
    /\ syncCount = 0
    /\ syncAcked = FALSE
    /\ queried = <<>>
    /\ eraseOk = "none"
    /\ flashed = <<>>
    /\ failedChunks = 0
    /\ consecFail = 0
    /\ progress = NoProgress
    /\ exitCause = "none"
    /\ otpOk = <<>>
    /\ seenGone = {}
    /\ file \in files
    /\ ret = NoCall

\* the uploader beside a SerialLink that nothing has called
Start(pcs, files, enumerations, queues) ==
    /\ UploaderStart(pcs, files, enumerations, queues)
    /\ link = SerialLink

Init == Start({"idle"}, Files, SUBSET Ports, {EmptyQueues})

\* ------------------------------------------------------------ stop() and the host
\* void PX4FirmwareUploader::stop()
stop ==
    /\ ~m_stop
    /\ pc \notin {"idle", "loadFailed", "crashed", "exit"}
    /\ m_stop' = TRUE
    /\ UNCHANGED <<pc, m_port, raised, eraseOk, exitCause,
                   plugVars, fileVars, loc, progVars, cmdVars, syncVars>>
    /\ UNCHANGED <<otpOk, seenGone, file, ret, link>>

PlugStages == {"plugInit", "plugScan", "plugCmp", "plugRescan", "plugStop"}

\* a serial port is plugged in or removed while the driver polls
PortChange ==
    /\ pc \in PlugStages
    /\ \E p \in Ports : avail' = IF p \in avail THEN avail \ {p} ELSE avail \cup {p}
    /\ UNCHANGED <<pc, m_stop, m_port, raised, eraseOk, exitCause,
                   portlist, size, portnametouse, found,
                   fileVars, loc, progVars, cmdVars, syncVars>>
    /\ UNCHANGED <<otpOk, seenGone, file, ret, link>>

\* ------------------------------------------------------------ loadFile
\* m_port->close() at line 199: the constructor never assigns m_port, so the
\* call goes through an indeterminate pointer; it returns (and loadFile
\* returns false) or the process ends
UnsetPortClose == {"loadFailed", "crashed"}

\* loadFile, lines 193-211: the size test, the padding, the temporary file, start()
loadFile ==
    /\ pc = "idle"
    /\ LET uncompressed == file.image
           m_loadedFwSize == file.image_size
       IN IF Len(uncompressed) # m_loadedFwSize
          THEN /\ pc' \in UnsetPortClose
               /\ UNCHANGED fileVars
          ELSE /\ pc' = "plugInit"
               /\ fileData' = PadTo4(uncompressed)
               /\ tempFile' = "closed"
               /\ UNCHANGED filePos
    /\ UNCHANGED <<m_stop, m_port, raised, eraseOk, exitCause,
                   plugVars, loc, progVars, cmdVars, syncVars>>
    /\ UNCHANGED <<otpOk, seenGone, file, ret, link>>

\* ------------------------------------------------------------ run(): waiting for the plug
\* lines 217-226
PlugInit ==
    /\ pc = "plugInit"
    /\ raised' = raised \cup {"requestDevicePlug"}
    /\ portlist' = avail
    /\ size' = Cardinality(avail)
    /\ pc' = "plugScan"
    /\ UNCHANGED <<m_stop, m_port, eraseOk, exitCause, avail, portnametouse, found,
                   fileVars, loc, progVars, cmdVars, syncVars>>
    /\ UNCHANGED <<otpOk, seenGone, file, ret, link>>

\* a scan that takes any enumerated port
NewPorts_Any(enumerated, baseline) == enumerated

\* the ports with !portlist.contains(info.portName()), line 231
NewPorts(enumerated, baseline) == enumerated \ baseline

\* lines 229-237
PlugScan ==
    /\ pc = "plugScan"
    /\ IF NewPorts(avail, portlist) # {}
       THEN \E p \in NewPorts(avail, portlist) : portnametouse' = p /\ found' = TRUE
       ELSE UNCHANGED <<portnametouse, found>>
    /\ pc' = "plugCmp"
    /\ UNCHANGED <<m_stop, m_port, raised, eraseOk, exitCause, avail, portlist, size,
                   fileVars, loc, progVars, cmdVars, syncVars>>
    /\ UNCHANGED <<otpOk, seenGone, file, ret, link>>

\* line 238: the size test, on an enumeration of its own
PlugCmp ==
    /\ pc = "plugCmp"
    /\ IF size > Cardinality(avail)
       THEN pc' = "plugRescan" /\ seenGone' = seenGone \cup (portlist \ avail)
       ELSE pc' = "plugStop" /\ UNCHANGED seenGone
    /\ UNCHANGED <<m_stop, m_port, raised, eraseOk, exitCause,
                   plugVars, fileVars, loc, progVars, cmdVars, syncVars>>
    /\ UNCHANGED <<otpOk, file, ret, link>>

\* lines 241-246
PlugRescan ==
    /\ pc = "plugRescan"
    /\ portlist' = avail
    /\ size' = Cardinality(avail)
    /\ pc' = "plugStop"
    /\ UNCHANGED <<m_stop, m_port, raised, eraseOk, exitCause, avail, portnametouse, found,
                   fileVars, loc, progVars, cmdVars, syncVars>>
    /\ UNCHANGED <<otpOk, seenGone, file, ret, link>>

\* lines 248-252 and the loop test of line 227
PlugStop ==
    /\ pc = "plugStop"
    /\ IF m_stop
       THEN pc' = "exit" /\ exitCause' = "stop"
       ELSE pc' = (IF found THEN "open" ELSE "plugScan") /\ UNCHANGED exitCause
    /\ seenGone' = {}
    /\ UNCHANGED <<m_stop, m_port, raised, eraseOk,
                   plugVars, fileVars, loc, progVars, cmdVars, syncVars>>
    /\ UNCHANGED <<otpOk, file, ret, link>>

\* ------------------------------------------------------------ run(): opening the port
\* lines 254-261
Open ==
    /\ pc = "open"
    /\ \E opened \in BOOLEAN :
        IF opened
        THEN m_port' = "open" /\ pc' = "flush" /\ UNCHANGED exitCause
        ELSE m_port' = "new" /\ pc' = "exit" /\ exitCause' = "openFail"
    /\ UNCHANGED <<m_stop, raised, eraseOk,
                   plugVars, fileVars, loc, progVars, cmdVars, syncVars>>
    /\ UNCHANGED <<otpOk, seenGone, file, ret, link>>

\* lines 262-283: the line settings, 128 zero bytes, the drain, the stop test.
\* The locals of the plug loop are dead from here on and the ports no longer
\* matter: the model forgets them.
Flush ==
    /\ pc = "flush"
    /\ IF m_stop
       THEN m_port' = "deleted" /\ pc' = "exit" /\ exitCause' = "stop"
       ELSE pc' = "sync" /\ UNCHANGED <<m_port, exitCause>>
    /\ avail' = {} /\ portlist' = {} /\ size' = 0 /\ found' = FALSE /\ portnametouse' = 0
    /\ UNCHANGED <<m_stop, raised, eraseOk,
                   fileVars, loc, progVars, cmdVars, syncVars>>
    /\ UNCHANGED <<otpOk, seenGone, file, ret, link>>

\* ------------------------------------------------------------ run(): the SYNC loop
\* return; (the locals of run() end with it)
Return(cause) ==
    /\ pc' = "exit"
    /\ exitCause' = cause
    /\ loc' = Locals(0)

\* a loop test that admits one attempt more
LoopContinues_OneMore(r) == r <= MaxSyncRetry

\* the loop test of for (int retry=0;retry<5;retry++)
LoopContinues(r) == r < MaxSyncRetry

\* continue; in the SYNC loop: the block's locals end, retry++, the loop test,
\* and past the loop the end of run()
Continue ==
    IF LoopContinues(loc.retry + 1)
    THEN pc' = "sync" /\ loc' = Locals(loc.retry + 1) /\ UNCHANGED exitCause
    ELSE Return("syncExhausted")

\* what every written command records
Written(op, arg, frame, timedOut, staleUsed, late) ==
    /\ lates' = lates + late
    /\ lastCmd' = [op |-> op, arg |-> arg]
    /\ lastFrame' = frame
    /\ tick' = 1 - tick
    /\ exch' = [timedOut |-> timedOut, staleUsed |-> staleUsed]

\* lines 286-301 and 668-671: SYNC and its footer
Sync ==
    /\ pc = "sync"
    /\ \E o \in FooterExchange(q, FALSE, FooterReplies, MaxLate - lates) :
        /\ q' = o.q
        /\ Written(PROTO_GET_SYNC, 0, <<PROTO_GET_SYNC, PROTO_EOC>>,
                   o.timedOut, o.staleUsed, o.late)
        /\ syncCount' = syncCount + 1
        /\ queried' = <<>>
        /\ IF o.sync = 0
           THEN /\ pc' = "query"
                /\ syncAcked' = TRUE
                /\ UNCHANGED <<loc, exitCause>>
           ELSE /\ Continue
                /\ syncAcked' = FALSE
    /\ UNCHANGED <<m_stop, m_port, raised, eraseOk, plugVars, fileVars, progVars>>
    /\ otpOk' = <<>>
    /\ UNCHANGED <<seenGone, file, ret, link>>

\* a driver that goes on with the attempt whatever reqInfo returned
QueryFailed_Ignored(ok) == FALSE

\* if (!reply) { continue; }
QueryFailed(ok) == ~ok

\* a test that also admits the revision below
ReadsOtp_OneBelow(rev) == rev >= OtpMinRev - 1

\* if (bootloaderrev >= 4), line 364: the block holds the OTP and the
\* serial-number loops
ReadsOtp(rev) == rev >= OtpMinRev

\* lines 302-364: one reqInfo call; after the fourth the drain and the stop test
Query ==
    /\ pc = "query"
    /\ \E o \in reqInfo(loc.qidx, q, loc.read, MaxLate - lates) :
        /\ Written(PROTO_GET_DEVICE, loc.qidx, <<PROTO_GET_DEVICE, loc.qidx, PROTO_EOC>>,
                   o.timedOut, o.staleUsed, o.late)
        /\ queried' = IF o.ok THEN Append(queried, loc.qidx) ELSE queried
        /\ IF QueryFailed(o.ok)
           THEN /\ Continue
                /\ q' = o.q
                /\ UNCHANGED m_port
           ELSE LET got == [loc EXCEPT !.read = o.read,
                                       !.info[loc.qidx] = ToInt32(o.read)]
                IN /\ IF loc.qidx < PROTO_DEVICE_FW_SIZE
                      THEN /\ loc' = [got EXCEPT !.qidx = loc.qidx + 1]
                           /\ q' = o.q
                           /\ pc' = "query"
                           /\ UNCHANGED <<exitCause, m_port>>
                      ELSE /\ q' \in ClearPort(o.q)
                           /\ IF m_stop
                              THEN m_port' = "deleted" /\ Return("stop")
                              ELSE /\ loc' = got
                                   /\ pc' = IF ReadsOtp(got.info[PROTO_DEVICE_BL_REV])
                                            THEN "otp" ELSE "preErase"
                                   /\ UNCHANGED <<m_port, exitCause>>
    /\ UNCHANGED <<m_stop, raised, eraseOk, syncCount, syncAcked,
                   plugVars, fileVars, progVars>>
    /\ UNCHANGED <<otpOk, seenGone, file, ret, link>>

\* ------------------------------------------------------------ run(): OTP and serial number
\* if (otpbuf[0] != 80 && otpbuf[1] != 88 && otpbuf[2] != 52 && otpbuf[3] != 0)
OtpHeaderFailure(b) == b[1] # 80 /\ b[2] # 88 /\ b[3] # 52 /\ b[4] # 0

OtpFrame(i) == <<PROTO_GET_OTP, i % 256, (i \div 256) % 256, 0, 0>>

\* a failure path without its i-=4
OtpRetry_NoRewind(i) == i + 4

\* i-=4 and continue, which runs the loop's i+=4 (lines 382-390, 402-408)
OtpRetry(i) == (i - 4) + 4

\* the loop test i<512 with i == n and, when the loop ends, lines 419-427
OtpLoop(st, n) ==
    IF n < OtpBytes
    THEN /\ loc' = [st EXCEPT !.idx = n]
         /\ UNCHANGED <<pc, exitCause>>
    ELSE IF OtpHeaderFailure(st.otpbuf)
         THEN Continue
         ELSE /\ pc' = "sn"
              /\ loc' = [st EXCEPT !.idx = 0]
              /\ UNCHANGED exitCause

\* lines 368-443: one pass of the OTP loop; after the last the header test
Otp ==
    /\ pc = "otp"
    /\ \E r \in ValueRead(q, ValueReplies(OtpWords(loc.idx)), MaxLate - lates) :
        IF r.n < 4
        THEN /\ q' \in ClearPort(r.q)
             /\ Written(PROTO_GET_OTP, loc.idx, OtpFrame(loc.idx), TRUE, AnyStale(r.got), r.late)
             /\ OtpLoop(loc, OtpRetry(loc.idx))
             /\ UNCHANGED <<m_port, otpOk>>
        ELSE \E s \in get_sync(r.q, MaxLate - lates > 0) :
             /\ Written(PROTO_GET_OTP, loc.idx, OtpFrame(loc.idx), s.timedOut,
                        AnyStale(r.got) \/ s.staleUsed, s.late)
             /\ LET stored == IF loc.idx = 0 THEN [loc EXCEPT !.otpbuf = Vals(r.got)] ELSE loc
                IN IF s.sync # 0
                   THEN /\ q' \in ClearPort(s.q)
                        /\ OtpLoop(stored, OtpRetry(loc.idx))
                        /\ UNCHANGED <<m_port, otpOk>>
                   ELSE /\ q' = s.q
                        /\ otpOk' = Append(otpOk, loc.idx)
                        /\ IF m_stop
                           THEN m_port' = "deleted" /\ Return("stop")
                           ELSE /\ UNCHANGED m_port
                                /\ OtpLoop(stored, loc.idx + 4)
    /\ UNCHANGED <<m_stop, raised, eraseOk, syncCount, syncAcked, queried,
                   plugVars, fileVars, progVars>>
    /\ UNCHANGED <<seenGone, file, ret, link>>

SnFrame(i) == <<PROTO_GET_SN, i, 0, 0, 0, PROTO_EOC>>

\* lines 445-488: one pass of the serial-number loop
Sn ==
    /\ pc = "sn"
    /\ \E r \in ValueRead(q, ValueReplies(SnWords(loc.idx)), MaxLate - lates) :
        IF r.n < 4
        THEN /\ q' \in ClearPort(r.q)
             /\ Written(PROTO_GET_SN, loc.idx, SnFrame(loc.idx), TRUE, AnyStale(r.got), r.late)
             /\ UNCHANGED <<pc, loc, exitCause>>
        ELSE \E s \in get_sync(r.q, MaxLate - lates > 0) :
             /\ Written(PROTO_GET_SN, loc.idx, SnFrame(loc.idx), s.timedOut,
                        AnyStale(r.got) \/ s.staleUsed, s.late)
             /\ IF s.sync # 0
                THEN /\ q' = s.q
                     /\ Continue
                ELSE /\ q' \in ClearPort(s.q)
                     /\ UNCHANGED exitCause
                     /\ IF loc.idx + 4 < SnBytes
                        THEN loc' = [loc EXCEPT !.idx = loc.idx + 4] /\ UNCHANGED pc
                        ELSE loc' = [loc EXCEPT !.idx = 0] /\ pc' = "preErase"
    /\ UNCHANGED <<m_stop, m_port, raised, eraseOk,
                   syncCount, syncAcked, queried, plugVars, fileVars, progVars>>
    /\ otpOk' = <<>>
    /\ UNCHANGED <<seenGone, file, ret, link>>

\* ------------------------------------------------------------ run(): erase
InfoEvents == {"boardRev", "boardId", "bootloaderRev", "flashSize", "serialNumber", "OTP"}
EraseFrame == <<PROTO_CHIP_ERASE, PROTO_EOC>>

\* lines 531-544: the stop test and the device-information events
PreErase ==
    /\ pc = "preErase"
    /\ IF m_stop
       THEN /\ m_port' = "deleted" /\ Return("stop")
            /\ UNCHANGED raised
       ELSE /\ raised' = raised \cup InfoEvents
            /\ pc' = "erase"
            /\ UNCHANGED <<m_port, exitCause, loc>>
    /\ UNCHANGED <<m_stop, eraseOk, plugVars, fileVars, progVars, cmdVars, syncVars>>
    /\ UNCHANGED <<otpOk, seenGone, file, ret, link>>

\* a driver that goes on programming whatever the ERASE footer was
EraseFailed_Ignored(sync) == FALSE

\* if (sync) { return; } after get_sync(60000), lines 555-559 and 617-621
EraseFailed(sync) == sync # 0

\* lines 549-559: ERASE and its footer
Erase ==
    /\ pc = "erase"
    /\ \E o \in FooterExchange(q, FALSE, FooterReplies, MaxLate - lates) :
        /\ q' = o.q
        /\ Written(PROTO_CHIP_ERASE, 0, EraseFrame, o.timedOut, o.staleUsed, o.late)
        /\ eraseOk' = IF o.sync = 0 THEN "ack" ELSE "fail"
        /\ flashed' = IF o.sync = 0 THEN <<>> ELSE flashed
        /\ IF EraseFailed(o.sync)
           THEN Return("eraseTimeout")
           ELSE pc' = "postErase" /\ UNCHANGED <<exitCause, loc>>
    /\ progress' = [progress EXCEPT !.erases = @ + 1]
    /\ UNCHANGED <<m_stop, m_port, raised, plugVars, fileVars,
                   failedChunks, consecFail, syncVars>>
    /\ UNCHANGED <<otpOk, seenGone, file, ret, link>>

\* lines 560-580: the stop test, clear(), tempFile->open(), counter and failure.
\* The device information is not read again: the model forgets it.
PostErase ==
    /\ pc = "postErase"
    /\ IF m_stop
       THEN /\ m_port' = "deleted" /\ Return("stop")
            /\ UNCHANGED <<q, tempFile, filePos, raised, progress>>
       ELSE /\ q' \in ClearPort(q)
            /\ raised' = raised \cup {"statusUpdate"}
            /\ tempFile' = "open"
            /\ filePos' = 0
            /\ loc' = Locals(loc.retry)
            /\ progress' = [NoProgress EXCEPT !.erases = progress.erases]
            /\ pc' = "prog"
            /\ UNCHANGED <<m_port, exitCause>>
    /\ UNCHANGED <<m_stop, eraseOk, plugVars, fileData, flashed, failedChunks, consecFail,
                   lastCmd, lastFrame, tick, exch, lates, syncVars>>
    /\ UNCHANGED <<otpOk, seenGone, file, ret, link>>

\* ------------------------------------------------------------ run(): programming
\* QByteArray buf = tempFile->read(60)
ReadChunk(data, pos) == SubSeq(data, pos + 1, Min(pos + ChunkSize, Len(data)))

\* a frame with the length byte after the chunk
ProgFrame_LengthLast(buf) == <<PROTO_PROG_MULTI>> \o buf \o <<Len(buf), PROTO_EOC>>

\* lines 586-590
ProgFrame(buf) == <<PROTO_PROG_MULTI, Len(buf)>> \o buf \o <<PROTO_EOC>>

\* a threshold one failure higher
ProgFatal_OneMore(f) == f > MaxFailure + 1

\* a driver that re-erases after every failed chunk, however many have failed
ProgFatal_Never(f) == FALSE

\* if (failure > 2)
ProgFatal(f) == f > MaxFailure

\* a re-erase that leaves the file position where the failed chunk ended
SeekAfterErase_NoSeek(pos) == pos

\* a re-erase that rewinds to the second chunk instead of the first
SeekAfterErase_SecondChunk(pos) == ChunkSize

\* tempFile->seek(0) after the re-erase
SeekAfterErase(pos) == 0

\* a loop that ends once the first chunk has been read
atEnd_FirstChunk == filePos >= ChunkSize

\* tempFile->atEnd()
atEnd == filePos >= Len(fileData)

\* a cadence counted from 1: the 50th, 100th, ... acknowledged chunk
ProgressDue_FromOne(counter) == (counter + 1) % ProgressEvery = 0

\* if (counter++ % 50 == 0), line 625
ProgressDue(counter) == counter % ProgressEvery = 0

\* lines 581-608 and 625-637: one PROGRAM_MULTI and its footer
Prog ==
    /\ pc = "prog"
    /\ ~atEnd
    /\ LET buf == ReadChunk(fileData, filePos)
       IN \E o \in FooterExchange(q, TRUE, FooterReplies, MaxLate - lates) :
        /\ q' = o.q
        /\ Written(PROTO_PROG_MULTI, filePos, ProgFrame(buf), o.timedOut, o.staleUsed, o.late)
        /\ filePos' = filePos + Len(buf)
        /\ IF o.sync # 0
           THEN /\ failedChunks' = failedChunks + 1
                /\ consecFail' = consecFail + 1
                /\ UNCHANGED flashed
                /\ UNCHANGED progress
                /\ IF ProgFatal(loc.failure + 1)
                   THEN /\ raised' = raised \cup {"error"}
                        /\ m_port' = "closed"
                        /\ tempFile' = "deleted"
                        /\ Return("progFatal")
                   ELSE /\ pc' = "reerase"
                        /\ loc' = [loc EXCEPT !.failure = loc.failure + 1]
                        /\ UNCHANGED <<raised, m_port, tempFile, exitCause>>
           ELSE /\ flashed' = flashed \o buf
                /\ consecFail' = 0
                /\ raised' = IF ProgressDue(loc.counter)
                             THEN raised \cup {"flashProgress"} ELSE raised
                /\ progress' =
                     [acked |-> progress.acked + 1, erases |-> progress.erases,
                      events |-> IF ProgressDue(loc.counter)
                                 THEN Append(progress.events,
                                             [chunk |-> progress.acked,
                                              pos |-> filePos + Len(buf),
                                              size |-> Len(fileData)])
                                 ELSE progress.events]
                /\ UNCHANGED failedChunks
                /\ IF m_stop
                   THEN /\ m_port' = "deleted"
                        /\ tempFile' = "deleted"
                        /\ Return("stop")
                   ELSE /\ loc' = [loc EXCEPT !.counter = loc.counter + 1]
                        /\ UNCHANGED <<pc, m_port, tempFile, exitCause>>
    /\ UNCHANGED <<m_stop, eraseOk, plugVars, fileData, syncVars>>
    /\ UNCHANGED <<otpOk, seenGone, file, ret, link>>

\* lines 609-623: the re-erase after a failed chunk
ReErase ==
    /\ pc = "reerase"
    /\ \E o \in FooterExchange(q, TRUE, FooterReplies, MaxLate - lates) :
        /\ q' = o.q
        /\ Written(PROTO_CHIP_ERASE, 0, EraseFrame, o.timedOut, o.staleUsed, o.late)
        /\ eraseOk' = IF o.sync = 0 THEN "ack" ELSE "fail"
        /\ flashed' = IF o.sync = 0 THEN <<>> ELSE flashed
        /\ IF EraseFailed(o.sync)
           THEN Return("eraseTimeout") /\ UNCHANGED filePos
           ELSE /\ filePos' = SeekAfterErase(filePos)
                /\ pc' = "prog"
                /\ UNCHANGED <<exitCause, loc>>
    /\ progress' = [progress EXCEPT !.erases = @ + 1]
    /\ UNCHANGED <<m_stop, m_port, raised, plugVars, fileData, tempFile,
                   failedChunks, consecFail, syncVars>>
    /\ UNCHANGED <<otpOk, seenGone, file, ret, link>>

\* lines 650-660: REBOOT, close, the done event
Finish ==
    /\ pc = "prog"
    /\ atEnd
    /\ q' \in DeviceSend(q, {<<>>})
    /\ Written(PROTO_REBOOT, 0, <<PROTO_REBOOT, PROTO_EOC>>, FALSE, FALSE, 0)
    /\ m_port' = "deleted"
    /\ tempFile' = "deleted"
    /\ raised' = raised \cup {"done"}
    /\ Return("done")
    /\ UNCHANGED <<m_stop, eraseOk, plugVars, fileData, filePos, progVars, syncVars>>
    /\ UNCHANGED <<otpOk, seenGone, file, ret, link>>

\* ------------------------------------------------------------ specification
Driver ==
    \/ PlugInit \/ PlugScan \/ PlugCmp \/ PlugRescan \/ PlugStop
    \/ Open \/ Flush \/ Sync \/ Query \/ Otp \/ Sn
    \/ PreErase \/ Erase \/ PostErase \/ Prog \/ ReErase \/ Finish

Next == loadFile \/ stop \/ PortChange \/ Driver

Spec == Init /\ [][Next]_vars

\* ------------------------------------------------------------ the reads alone
\* get_sync and the reading half of reqInfo, called on every short sequence of
\* bytes the device may have sent, whatever part of it has arrived
FooterBytes == {PROTO_INSYNC, PROTO_OK, PROTO_FAILED, 0, 255}
ValueBytes == {0, 1, 127, 128, 255}

CallQueues ==
    LET inputs == UNION {[1..k -> FooterBytes] : k \in 0..MaxFooterInput}
                    \cup {w \o f : w \in [1..4 -> ValueBytes], f \in {<<>>, FooterOK}}
    IN UNION {{Queues(Take(s, k), <<>>, Drop(s, k)) : k \in 0..Len(s)} : s \in inputs}

\* int PX4FirmwareUploader::get_sync(int timeout)
GetSyncCall ==
    /\ pc = "call"
    /\ \E o \in get_sync(q, TRUE) :
        /\ q' = o.q
        /\ ret' = [call |-> "get_sync", val |-> o.sync]
    /\ pc' = "returned"
    /\ UNCHANGED <<m_stop, m_port, raised, eraseOk, exitCause, loc, plugVars, fileVars,
                   progVars, lastCmd, lastFrame, tick, exch, lates, syncVars,
                   otpOk, seenGone, file, link>>

\* reqInfo, lines 64-80: readBytes(4,5000,infobuf), the decode, get_sync(2000)
ReqInfoRead ==
    /\ pc = "call"
    /\ \E r \in readBytes(4, q, TRUE) : \E o \in InfoReply(r, loc.read, 1) :
        /\ q' = o.q
        /\ loc' = [loc EXCEPT !.read = o.read]
        /\ ret' = [call |-> "reqInfo", val |-> IF o.ok THEN 1 ELSE 0]
    /\ pc' = "returned"
    /\ UNCHANGED <<m_stop, m_port, raised, eraseOk, exitCause, plugVars, fileVars,
                   progVars, lastCmd, lastFrame, tick, exch, lates, syncVars,
                   otpOk, seenGone, file, link>>

CallInit == Start({"call"}, {[image |-> <<>>, image_size |-> 0]}, {{}}, CallQueues)
CallNext == GetSyncCall \/ ReqInfoRead
CallSpec == CallInit /\ [][CallNext]_vars

\* ------------------------------------------------------------ SerialLink.cc
\* The link is used by two threads: the I/O thread that runs run(), and the
\* thread that calls connect(), disconnect(), writeBytes(), requestReset()
\* and the destructor.
\* m_port is "null", "new" (allocated, not open), "open", "closed" (a closed
\* object) or "deleted" (the pointer of a deleted object).

\* QThread::isRunning(): from start() until run() returns
isRunning == link.rpc # "idle"

\* the statements under QMutexLocker locker(&m_stoppMutex) wait for the mutex
stoppMutexFree == link.stoppMutex = "free"

\* a use of *m_port where m_port is NULL or the pointer of a deleted object
\* is undefined: the call goes on, or the process dies
Crashed == [link EXCEPT !.cpc = "crashed", !.rpc = "crashed"]

\* a step that calls what through m_port and, if that returns, leaves the link
\* as goes
Through(what, goes) ==
    IF link.m_port \in {"null", "deleted"}
    THEN {[l EXCEPT !.misuse = IF @ = "none" THEN what ELSE @] : l \in {goes, Crashed}}
    ELSE {goes}

\* the byte array of the k-th accepted writeBytes call, of length len
Array(k, len) == [i \in 1..len |-> 16 * k + i]

\* the accepted writeBytes calls so far
Accepted == IF link.written = <<>> THEN 0 ELSE link.written[Len(link.written)] \div 16

\* the caller starts a call: the signals of the last call are forgotten
Calling(l) == [l EXCEPT !.commError = FALSE]

\* void SerialLink::requestReset()
requestReset ==
    /\ link.cpc = "ready"
    /\ stoppMutexFree
    /\ link' = [Calling(link) EXCEPT !.m_reqReset = TRUE]
    /\ UNCHANGED uploaderVars

\* a call of disconnect() from outside the class
DisconnectCall ==
    /\ link.cpc = "ready"
    /\ link' = [Calling(link) EXCEPT !.cpc = "d_test", !.cret = "ready"]
    /\ UNCHANGED uploaderVars

\* disconnect(), lines 367-375: m_port->portName() is logged if m_port is not
\* NULL, and again, untested, if the thread is running
DisconnectTest ==
    /\ link.cpc = "d_test"
    /\ LET goes == [link EXCEPT !.cpc = IF isRunning THEN "d_set" ELSE link.cret]
       IN  link' \in IF \/ link.m_port = "deleted"
                        \/ (isRunning /\ link.m_port = "null")
                     THEN Through("portName", goes)
                     ELSE {goes}
    /\ UNCHANGED uploaderVars

\* disconnect(), lines 376-384
DisconnectSet ==
    /\ link.cpc = "d_set"
    /\ stoppMutexFree
    /\ link' = [link EXCEPT !.m_stopp = TRUE, !.cpc = link.cret]
    /\ UNCHANGED uploaderVars

\* connect(), lines 402-403
ConnectTest ==
    /\ link.cpc = "ready"
    /\ link' = IF isRunning
               THEN [Calling(link) EXCEPT !.cpc = "d_test", !.cret = "c_clear"]
               ELSE [Calling(link) EXCEPT !.cpc = "c_clear"]
    /\ UNCHANGED uploaderVars

\* connect(), lines 404-407
ConnectClear ==
    /\ link.cpc = "c_clear"
    /\ stoppMutexFree
    /\ link' = [link EXCEPT !.m_stopp = FALSE, !.cpc = "c_start"]
    /\ UNCHANGED uploaderVars

\* connect(), lines 409-410: QThread::start() does nothing while the thread runs
ConnectStart ==
    /\ link.cpc = "c_start"
    /\ link' = [link EXCEPT !.cpc = "ready",
                            !.rpc = IF isRunning THEN link.rpc ELSE "hc"]
    /\ UNCHANGED uploaderVars

\* ~SerialLink(), line 66: disconnect()
DestructorCall ==
    /\ link.cpc = "ready"
    /\ link' = [Calling(link) EXCEPT !.cpc = "d_test", !.cret = "x_delete"]
    /\ UNCHANGED uploaderVars

\* ~SerialLink(), lines 67-69: writeSettings(); if(m_port) delete m_port
DestructorDelete ==
    /\ link.cpc = "x_delete"
    /\ link' \in CASE link.m_port = "null" -> {[link EXCEPT !.cpc = "x_null"]}
                    [] link.m_port = "deleted" ->
                           Through("delete", [link EXCEPT !.cpc = "x_null"])
                    [] OTHER -> {[link EXCEPT !.m_port = "deleted", !.cpc = "x_null"]}
    /\ UNCHANGED uploaderVars

\* ~SerialLink(), line 70: m_port = NULL; then the members and the QThread
\* are destroyed, which ends the process if the thread is still running
DestructorNull ==
    /\ link.cpc = "x_null"
    /\ link' = [link EXCEPT !.m_port = "null", !.cpc = "gone",
                            !.rpc = IF isRunning THEN "crashed" ELSE @]
    /\ UNCHANGED uploaderVars

\* writeBytes(), line 288: if(m_port && m_port->isOpen())
WriteTest ==
    /\ link.cpc = "ready"
    /\ Accepted < MaxWrites
    /\ LET sends == [Calling(link) EXCEPT !.cpc = "w_app"]
           fails == [Calling(link) EXCEPT !.cpc = "d_test", !.cret = "w_err"]
       IN  link' \in CASE link.m_port = "open" -> {sends}
                       [] link.m_port = "deleted" ->
                              Through("isOpen", sends) \cup Through("isOpen", fails)
                       [] OTHER -> {fails}
    /\ UNCHANGED uploaderVars

\* writeBytes(), lines 291-298
WriteAppend ==
    /\ link.cpc = "w_app"
    /\ \E len \in 1..MaxArray :
        link' = [link EXCEPT
                    !.m_transmitBuffer = @ \o Array(Accepted + 1, len),
                    !.written = @ \o Array(Accepted + 1, len),
                    !.m_bitsSentTotal = @ + len * 8,
                    !.cpc = "ready"]
    /\ UNCHANGED uploaderVars

\* writeBytes(), lines 303-305, after its disconnect()
WriteError ==
    /\ link.cpc = "w_err"
    /\ link' = [link EXCEPT !.commError = TRUE, !.cpc = "ready"]
    /\ UNCHANGED uploaderVars

\* hardwareConnect(), lines 421-427: close() and delete of the last port
HcDispose ==
    /\ link.rpc = "hc"
    /\ link' = IF link.m_port # "null"
               THEN [link EXCEPT !.m_port = "deleted", !.rpc = "hcNew"]
               ELSE [link EXCEPT !.rpc = "hcNew"]
    /\ UNCHANGED uploaderVars

\* hardwareConnect(), lines 428-431: m_port = NULL; m_port = new QSerialPort
HcNew ==
    /\ link.rpc = "hcNew"
    /\ link' = [link EXCEPT !.m_port = "new", !.rpc = "hcOpen"]
    /\ UNCHANGED uploaderVars

\* hardwareConnect(), lines 444-470: the port opens, or does not and is closed
HcOpen ==
    /\ link.rpc = "hcOpen"
    /\ \E opened \in BOOLEAN :
        link' = IF opened
                THEN [link EXCEPT !.m_port = "open", !.rpc = "top"]
                ELSE [link EXCEPT !.m_port = "closed", !.rpc = "failed"]
    /\ UNCHANGED uploaderVars

\* run(), lines 152-158: communicationError, disconnect() and return
RunFailed ==
    /\ link.rpc = "failed"
    /\ stoppMutexFree
    /\ link' \in Through("errorString", [link EXCEPT !.m_stopp = TRUE, !.rpc = "idle"])
    /\ UNCHANGED uploaderVars

\* a loop that toggles the line at every pass
ResetPending_Always(l) == TRUE

\* if (m_reqReset), line 177
ResetPending(l) == l.m_reqReset

\* run(), lines 169-181: the stop test and the reset test, under m_stoppMutex
LoopTop ==
    /\ link.rpc = "top"
    /\ stoppMutexFree
    /\ link' \in IF link.m_stopp
                  THEN {[link EXCEPT !.m_stopp = FALSE, !.rpc = "close"]}
                  ELSE IF ResetPending(link)
                       THEN Through("setDataTerminalReady",
                                    [link EXCEPT !.m_reqReset = FALSE, !.dtr = TRUE,
                                                 !.stoppMutex = "run", !.rpc = "dtr"])
                       ELSE {[link EXCEPT !.rpc = "write"]}
    /\ UNCHANGED uploaderVars

\* run(), lines 182-185: msleep(250), setDataTerminalReady(false), unlock
LoopDtr ==
    /\ link.rpc = "dtr"
    /\ link' = [link EXCEPT !.dtr = FALSE, !.stoppMutex = "free", !.rpc = "write"]
    /\ UNCHANGED uploaderVars

\* a write that empties the buffer whatever the device accepted
Removed_All(buf, numWritten) == <<>>

\* m_transmitBuffer.remove(0, numWritten): QByteArray::remove leaves the
\* array as it is when the length is not positive
Removed(buf, numWritten) == IF numWritten <= 0 THEN buf ELSE Drop(buf, numWritten)

\* run(), lines 187-196: m_port->write() accepts numWritten bytes, or fails (-1)
LoopWrite ==
    /\ link.rpc = "write"
    /\ IF Len(link.m_transmitBuffer) > 0
       THEN \E numWritten \in -1..Len(link.m_transmitBuffer) :
               link' \in Through("write", [link EXCEPT
                           !.handed = @ \o Take(link.m_transmitBuffer, numWritten),
                           !.m_transmitBuffer = Removed(@, numWritten),
                           !.rpc = "read"])
       ELSE link' = [link EXCEPT !.rpc = "read"]
    /\ UNCHANGED uploaderVars

\* run(), lines 198-266: what has arrived is read and counted
LoopRead ==
    /\ link.rpc = "read"
    /\ \E n \in 0..(MaxReceived - link.m_bitsReceivedTotal \div 8) :
        link' \in Through("waitForReadyRead",
                          [link EXCEPT !.m_bitsReceivedTotal = @ + n * 8, !.rpc = "top"])
    /\ UNCHANGED uploaderVars

\* run(), lines 269-275: m_port->close() under m_stoppMutex
RunClose ==
    /\ link.rpc = "close"
    /\ stoppMutexFree
    /\ link' \in Through("close", [link EXCEPT
                          !.m_port = IF @ \in {"null", "deleted"} THEN @ ELSE "closed",
                          !.stoppMutex = "run", !.rpc = "delete"])
    /\ UNCHANGED uploaderVars

\* run(), line 276: delete m_port (nothing is done for a NULL pointer, and
\* the second delete of an object is undefined)
RunDelete ==
    /\ link.rpc = "delete"
    /\ link' \in CASE link.m_port = "null" -> {[link EXCEPT !.rpc = "null"]}
                    [] link.m_port = "deleted" -> Through("delete", [link EXCEPT !.rpc = "null"])
                    [] OTHER -> {[link EXCEPT !.m_port = "deleted", !.rpc = "null"]}
    /\ UNCHANGED uploaderVars

\* run(), lines 277-279: m_port = NULL and the mutex is released
RunNull ==
    /\ link.rpc = "null"
    /\ link' = [link EXCEPT !.m_port = "null", !.stoppMutex = "free", !.rpc = "emit"]
    /\ UNCHANGED uploaderVars

\* run(), lines 281-285: the disconnected signals, and run() returns
RunExit ==
    /\ link.rpc = "emit"
    /\ link' = [link EXCEPT !.rpc = "idle"]
    /\ UNCHANGED uploaderVars

Caller ==
    \/ requestReset \/ DisconnectCall \/ DisconnectTest \/ DisconnectSet
    \/ ConnectTest \/ ConnectClear \/ ConnectStart
    \/ WriteTest \/ WriteAppend \/ WriteError
    \/ DestructorCall \/ DestructorDelete \/ DestructorNull

IoThread ==
    \/ HcDispose \/ HcNew \/ HcOpen \/ RunFailed
    \/ LoopTop \/ LoopDtr \/ LoopWrite \/ LoopRead
    \/ RunClose \/ RunDelete \/ RunNull \/ RunExit

LinkInit == Start({"idle"}, {[image |-> <<>>, image_size |-> 0]}, {{}}, {EmptyQueues})
LinkNext == Caller \/ IoThread
LinkSpec == LinkInit /\ [][LinkNext]_vars

\* ------------------------------------------------------------ the statistics alone
\* getTotalUpstream and getTotalDownstream called on a link that has counted
\* some bits, some milliseconds after the connection started
BitCounts == {8 * k : k \in 0..MaxCounted}
ElapsedMs == UNION {{1000 * k, 1000 * k + 999} : k \in 0..MaxElapsed}

\* bits / ((MG::TIME::getGroundTimeNow() - m_connectionStartTime) / 1000),
\* lines 577 and 604: an integer division by zero is undefined, the process
\* is killed or the call returns some value
RateOf(name, bits, ms) ==
    IF ms \div 1000 = 0
    THEN {[call |-> name, divisor |-> 0, outcome |-> o, rate |-> 0] : o \in {"crashed", "returned"}}
    ELSE {[call |-> name, divisor |-> ms \div 1000, outcome |-> "returned",
           rate |-> bits \div (ms \div 1000)]}

\* qint64 SerialLink::getTotalUpstream(): lock(), return; the unlock() after
\* the return is never reached
getTotalUpstream ==
    /\ link.statisticsMutex = "free"
    /\ \E ms \in ElapsedMs : \E st \in RateOf("getTotalUpstream", link.m_bitsSentTotal, ms) :
        link' = [link EXCEPT !.statisticsMutex = "locked", !.stat = st]
    /\ UNCHANGED uploaderVars

\* qint64 SerialLink::getTotalDownstream()
getTotalDownstream ==
    /\ link.statisticsMutex = "free"
    /\ \E ms \in ElapsedMs : \E st \in RateOf("getTotalDownstream", link.m_bitsReceivedTotal, ms) :
        link' = [link EXCEPT !.statisticsMutex = "locked", !.stat = st]
    /\ UNCHANGED uploaderVars

StatInit ==
    /\ UploaderStart({"idle"}, {[image |-> <<>>, image_size |-> 0]}, {{}}, {EmptyQueues})
    /\ link \in {[SerialLink EXCEPT !.m_bitsSentTotal = s, !.m_bitsReceivedTotal = r] :
                    s \in BitCounts, r \in BitCounts}
StatNext == getTotalUpstream \/ getTotalDownstream
StatSpec == StatInit /\ [][StatNext]_vars

\* ------------------------------------------------------------ programming alone
\* The erase and programming stages of run() (lines 549-660) alone, from the
\* state in which a revision-3 board has answered the four queries and the
\* device-information events have been raised: the port is open, the padded
\* image is in the temporary file, ERASE is the next command. spent is the
\* number of late replies there have been.
LongImages == {[i \in 1..n |-> 0] : n \in {(MaxProgChunks - 1) * ChunkSize + 1,
                                            MaxProgChunks * ChunkSize}}

ProgStart(images, spent) ==
    /\ pc = "erase"
    /\ m_stop = FALSE
    /\ m_port = "open"
    /\ tempFile = "closed"
    /\ file \in {[image |-> im, image_size |-> Len(im)] : im \in images}
    /\ fileData = PadTo4(file.image)
    /\ filePos = 0
    /\ avail = {}
    /\ portlist = {}
    /\ size = 0
    /\ portnametouse = 0
    /\ found = FALSE
    /\ loc = [Locals(0) EXCEPT !.read = U32(0, 1), !.info = <<3, 1, 1, 1>>,
                               !.qidx = PROTO_DEVICE_FW_SIZE]
    /\ q = EmptyQueues
    /\ raised = {"requestDevicePlug"} \cup InfoEvents
    /\ lastCmd = [op |-> PROTO_GET_DEVICE, arg |-> PROTO_DEVICE_FW_SIZE]
    /\ lastFrame = <<PROTO_GET_DEVICE, PROTO_DEVICE_FW_SIZE, PROTO_EOC>>
    /\ tick = 1
    /\ exch = [timedOut |-> FALSE, staleUsed |-> FALSE]
    /\ lates = spent
    /\ syncCount = 1
    /\ syncAcked = TRUE
    /\ queried = <<PROTO_DEVICE_BL_REV, PROTO_DEVICE_BOARD_ID,
                   PROTO_DEVICE_BOARD_REV, PROTO_DEVICE_FW_SIZE>>
    /\ eraseOk = "none"
    /\ flashed = <<>>
    /\ failedChunks = 0
    /\ consecFail = 0
    /\ progress = NoProgress
    /\ exitCause = "none"
    /\ otpOk = <<>>
    /\ seenGone = {}
    /\ ret = NoCall
    /\ link = SerialLink

\* an image of many chunks, on a device that is never late
ProgInit == ProgStart(LongImages, MaxLate)
ProgNext == Erase \/ PostErase \/ Prog \/ ReErase \/ Finish
ProgSpec == ProgInit /\ [][ProgNext]_vars

\* the image of the upload, on every device, with stop() called at any time;
\* the thread is not held up for ever
StageInit == ProgStart({Image}, 0)
StageNext == stop \/ ProgNext
FairStageSpec == StageInit /\ [][StageNext]_vars /\ WF_vars(ProgNext)

\* ------------------------------------------------------------ the port settings alone
\* setPortName and setBaudRate called in every order on a link as the
\* constructor leaves it: without stored settings (m_baud = -1, no entries),
\* or with a stored port and baud rate whose map has the one entry of line 118
PortNames == 1..MaxPortName
BaudRates == {9600, 57600, 115200}

\* setBaudRate(rate), lines 800-812, on the link l
SetBaud(l, rate) ==
    IF rate # l.m_baud
    THEN [l EXCEPT !.m_baud = rate,
                   !.m_portBaudMap = (l.m_portName :> rate) @@ l.m_portBaudMap]
    ELSE l

\* bool SerialLink::setBaudRate(int rate)
setBaudRate ==
    /\ \E rate \in BaudRates : link' = SetBaud(link, rate)
    /\ UNCHANGED uploaderVars

\* bool SerialLink::setPortName(QString portName): the name is portName.trimmed(),
\* 0 is the empty name; padded says that portName has blanks around the name,
\* so that it differs from every stored (trimmed) name
setPortName ==
    /\ \E name \in 0..MaxPortName : \E padded \in BOOLEAN :
        link' = IF (padded \/ name # link.m_portName) /\ name # 0
                THEN LET l == [link EXCEPT
                                  !.m_portName = name,
                                  !.lastBaud = IF name # link.m_portName
                                               THEN (link.m_portName :> link.m_baud) @@ @
                                               ELSE @]
                     IN  IF name \in DOMAIN l.m_portBaudMap
                         THEN SetBaud(l, l.m_portBaudMap[name])
                         ELSE l
                ELSE link
    /\ UNCHANGED uploaderVars

BaudInit ==
    /\ UploaderStart({"idle"}, {[image |-> <<>>, image_size |-> 0]}, {{}}, {EmptyQueues})
    /\ link \in {[SerialLink EXCEPT !.m_portName = p] : p \in PortNames}
                 \cup {[SerialLink EXCEPT !.m_portName = p, !.m_baud = b,
                                          !.m_portBaudMap = (p :> b)] :
                            p \in PortNames, b \in BaudRates}
BaudNext == setPortName \/ setBaudRate
BaudSpec == BaudInit /\ [][BaudNext]_vars

\* loadFile alone, on every small container
LoadInit == Start({"idle"}, SmallFiles, {{}}, {EmptyQueues})
LoadSpec == LoadInit /\ [][loadFile]_vars

FairSpec == Spec /\ WF_vars(Driver)

\* ------------------------------------------------------------ properties
\* a command was written by this step
Sends == tick' # tick

\* bytes the device emitted for the last command that the driver has not consumed
HasFresh(qs) == \E i \in 1..Len(qs.buf \o qs.port \o qs.wire) :
                    ~IsStale((qs.buf \o qs.port \o qs.wire)[i])

\* the last PROGRAM_MULTI failed its footer check and programming goes on
ChunkJustFailed == lastCmd.op = PROTO_PROG_MULTI /\ consecFail > 0 /\ pc # "exit"

\* the last GET_DEVICE did not succeed (queried holds the fields that did, in order)
QueryJustFailed == lastCmd.op = PROTO_GET_DEVICE /\ Len(queried) < lastCmd.arg

FatalCauses == {"openFail", "syncExhausted", "eraseTimeout", "progFatal"}

\* C1: when the done event has been raised, the chunks acknowledged since
\* the most recent acknowledged ERASE, concatenated in the order they were
\* sent, are the padded payload exactly once: nothing missing, duplicated
\* or out of order.
C1_FlashedIsPayload == "done" \in raised => flashed = PadTo4(Image)

\* done is raised in a session where a chunk failed and the chip was re-erased
C1_Witness == "done" \in raised /\ failedChunks > 0 /\ flashed = PadTo4(Image)

\* C2: after a PROGRAM_MULTI chunk fails its footer check without being
\* fatal, the next command written is ERASE; and once an ERASE that follows
\* a failed chunk is acknowledged, the next PROGRAM_MULTI written carries
\* the payload bytes at offset 0, never the failed offset.
C2_ReEraseRestartsAtZero ==
    [][Sends =>
          /\ ChunkJustFailed => lastCmd'.op = PROTO_CHIP_ERASE
          /\ (lastCmd.op = PROTO_CHIP_ERASE /\ failedChunks > 0
                /\ lastCmd'.op = PROTO_PROG_MULTI)
             => /\ eraseOk = "ack"
                /\ lastCmd'.arg = 0
                /\ lastFrame' = ProgFrame(Take(PadTo4(Image), ChunkSize))]_vars

\* the first chunk is being programmed again after a later chunk failed
C2_Witness ==
    /\ lastCmd = [op |-> PROTO_PROG_MULTI, arg |-> 0]
    /\ failedChunks = 1
    /\ consecFail = 0
    /\ filePos = ChunkSize
    /\ flashed = Take(PadTo4(Image), ChunkSize)
    /\ loc.counter > 2

C4_ProgramOnlyAfterErasedAck ==
    /\ [](lastCmd.op = PROTO_PROG_MULTI => eraseOk = "ack")
    /\ [][Sends => eraseOk # "fail" /\ (lastCmd'.op = PROTO_PROG_MULTI => eraseOk = "ack")]_vars

\* a re-erase got no footer and the thread has ended with ERASE as its last command
C4_Witness ==
    /\ eraseOk = "fail"
    /\ failedChunks > 0
    /\ lastCmd.op = PROTO_CHIP_ERASE
    /\ pc = "exit"

\* C5: when the footer of an ERASE does not arrive, an error event is
\* raised before the thread exits.
C5_EraseTimeoutRaisesError == exitCause = "eraseTimeout" => "error" \in raised

\* C6: on every fatal exit (open failure, SYNC attempts exhausted, ERASE
\* timeout, fatal chunk failure) the device handle is closed and the
\* temporary file is released.
C6_FatalExitReleases ==
    exitCause \in FatalCauses => m_port # "open" /\ tempFile = "deleted"

\* C7: at most five SYNC commands are written in a session, whatever made
\* the attempts fail, and after the fifth attempt fails no further command
\* is written.
C7_AtMostFiveSyncs ==
    /\ [](syncCount <= MaxSyncRetry)
    /\ [](exitCause = "syncExhausted" => syncCount = MaxSyncRetry /\ pc = "exit")
    /\ [][Sends => exitCause # "syncExhausted"
                   /\ (lastCmd'.op = PROTO_GET_SYNC => syncCount < MaxSyncRetry)]_vars

\* the fifth attempt failed at the serial number read and the thread has ended
C7_Witness ==
    /\ exitCause = "syncExhausted"
    /\ syncCount = MaxSyncRetry
    /\ lastCmd.op = PROTO_GET_SN

\* C8: ERASE is written only after, in the same attempt, the SYNC was
\* acknowledged and the four GET_DEVICE queries succeeded in the order
\* 1, 2, 3, 4; when a query fails the next command written is SYNC.
C8_EraseOnlyAfterIdentification ==
    /\ [](lastCmd.op = PROTO_CHIP_ERASE => syncAcked /\ queried = <<1, 2, 3, 4>>)
    /\ [][Sends =>
             /\ lastCmd'.op = PROTO_CHIP_ERASE => syncAcked /\ queried = <<1, 2, 3, 4>>
             /\ QueryJustFailed => lastCmd'.op = PROTO_GET_SYNC]_vars

\* ERASE is written in the second attempt, after the first one was abandoned
C8_Witness ==
    /\ lastCmd.op = PROTO_CHIP_ERASE
    /\ syncCount = 2
    /\ queried = <<1, 2, 3, 4>>
    /\ failedChunks = 0

\* C9: a command is written only when the reply to the command before it
\* is no longer outstanding: the driver consumed it, or a read of it timed
\* out.
C9_SingleCommandInFlight ==
    [][(Sends /\ lastCmd.op # 0) => (exch.timedOut \/ ~HasFresh(q))]_vars

\* C10: once stop() has been called the thread eventually exits, in every
\* stage and for every device behaviour.
C10_StopLeadsToExit == m_stop ~> (pc = "exit")

\* C11: whenever the thread exits because a stop test saw the stop signal,
\* the device handle, if one was opened, has been closed and the temporary
\* file holding the decoded image has been released.
C11_StopExitReleases ==
    exitCause = "stop" => m_port \notin {"new", "open"} /\ tempFile = "deleted"

\* the decompressed length differs from the declared image_size
Mismatch == Len(file.image) # file.image_size

\* C12: when the decompressed length differs from the declared image_size,
\* loadFile fails (it returns false) and the driver is never started: no
\* port is opened and no command is written for that image.
C12_MismatchFailsUnstarted ==
    (Mismatch /\ pc # "idle") =>
        /\ pc = "loadFailed"
        /\ m_port = "unset"
        /\ lastCmd = NoCmd
        /\ syncCount = 0

\* C13: for every decompressed image whose length equals the declared
\* image_size, loadFile stores a payload whose length is the smallest
\* multiple of 4 that is >= image_size, whose first image_size bytes are
\* the image unchanged and whose remaining bytes are all 0xFF.
C13_PaddedPayload ==
    (pc # "idle" /\ ~Mismatch) =>
        LET n == file.image_size
        IN /\ pc = "plugInit"
           /\ Len(fileData) % 4 = 0
           /\ Len(fileData) >= n
           /\ Len(fileData) < n + 4
           /\ Take(fileData, n) = file.image
           /\ \A i \in (n + 1)..Len(fileData) : fileData[i] = 255

\* a 5-byte image that ends in 0xFF has been stored with three bytes of padding
C13_Witness ==
    /\ pc = "plugInit"
    /\ file.image = <<7, 0, 7, 0, 255>>
    /\ fileData = <<7, 0, 7, 0, 255, 255, 255, 255>>

\* the bytes the device has sent that no read has consumed, oldest first
Unread(qs) == qs.buf \o qs.port \o qs.wire

\* C14: get_sync returns 0 if and only if it obtained two bytes and they are
\* 0x12, 0x10 in that order; with any other pair, and with fewer than two
\* bytes before the timeout, it returns -1.
C14_FooterRecognition ==
    [][ret'.call = "get_sync" =>
          LET taken == Len(Unread(q)) - Len(Unread(q'))
          IN /\ taken \in {0, 2}
             /\ Unread(q') = Drop(Unread(q), taken)
             /\ ret'.val = (IF taken = 2 /\ Take(Unread(q), 2) = <<18, 16>> THEN 0 ELSE -1)]_vars

\* get_sync returned 0 and left a third byte unread
C14_Witness == ret = [call |-> "get_sync", val |-> 0] /\ Unread(q) = <<255>>

\* C16: reqInfo decodes the four value bytes b0, b1, b2, b3 as the unsigned
\* 32-bit little-endian integer b0 + b1*2^8 + b2*2^16 + b3*2^24, for all
\* byte values (the integer is held as hi * 2^16 + lo).
C16_LittleEndianDecode ==
    [][ret'.call = "reqInfo" =>
          LET b == Unread(q)
          IN loc'.read = IF Len(Unread(q)) - Len(Unread(q')) >= 4
                         THEN U32(b[3] + b[4] * 256, b[1] + b[2] * 256)
                         ELSE loc.read]_vars

\* FF FF FF FF has been decoded to 2^32 - 1 and the footer accepted
C16_Witness ==
    /\ ret = [call |-> "reqInfo", val |-> 1]
    /\ loc.read = U32(65535, 65535)
    /\ Unread(q) = <<>>

\* C15: every PROGRAM_MULTI frame carries between 1 and 60 payload bytes and
\* is 3 bytes longer than its chunk: 0x27, one byte equal to the chunk
\* length, the chunk's bytes as they stand in the payload, then 0x20.
C15_ProgFrameLayout ==
    lastCmd.op = PROTO_PROG_MULTI =>
        LET n == Len(lastFrame) - 3
            at == lastCmd.arg
        IN /\ n \in 1..60
           /\ at + n <= Len(fileData)
           /\ lastFrame[1] = 39
           /\ lastFrame[2] = n
           /\ SubSeq(lastFrame, 3, n + 2) = SubSeq(fileData, at + 1, at + n)
           /\ lastFrame[n + 3] = 32

\* the last chunk of the payload, shorter than 60 bytes, has been sent
C15_Witness ==
    /\ lastCmd.op = PROTO_PROG_MULTI
    /\ lastCmd.arg + Len(lastFrame) - 3 = Len(fileData)
    /\ Len(lastFrame) - 3 \in 1..59

\* C17: the port selected as the bootloader port appears in the enumeration
\* of that scan and is absent from the baseline of that scan; no port object
\* is created or opened before such a port has been selected.
C17_SelectedPortIsNew ==
    [][/\ (portnametouse' # portnametouse /\ portnametouse' \in Ports) =>
              /\ portnametouse' \in avail
              /\ portnametouse' \notin portlist
              /\ found'
       /\ (found' /\ ~found) => portnametouse' \in avail \ portlist
       /\ (m_port' # m_port /\ m_port' \in {"new", "open"}) =>
              found /\ portnametouse \in Ports]_vars

\* port 2 was selected while port 1 was in the baseline, and has been opened
C17_Witness == pc = "flush" /\ m_port = "open" /\ portnametouse = 2 /\ 1 \in portlist

\* C18: when a poll finds that ports of the baseline have vanished, the
\* baseline it continues with is the enumeration without them, so that a
\* vanished port that re-appears is detected as new, whatever the sequence
\* of removals and additions.
C18_VanishedLeavesBaseline ==
    (pc = "plugStop" /\ ~found) => seenGone \cap portlist = {}

\* C19: GET_OTP and GET_SN are sent only in an attempt whose bootloader
\* revision is at least 4; in an attempt whose revision is below 4 the
\* command sent after the accepted flash-size query is ERASE.
C19_OtpOnlyFromRev4 ==
    [][Sends =>
          /\ lastCmd'.op \in {PROTO_GET_OTP, PROTO_GET_SN} =>
                 loc.info[PROTO_DEVICE_BL_REV] >= 4
          /\ (/\ lastCmd = [op |-> PROTO_GET_DEVICE, arg |-> PROTO_DEVICE_FW_SIZE]
              /\ pc # "sync"
              /\ loc.info[PROTO_DEVICE_BL_REV] < 4) =>
                 lastCmd'.op = PROTO_CHIP_ERASE]_vars

\* a revision-3 attempt has sent ERASE without any OTP or serial-number read
C19_Witness ==
    /\ pc = "postErase"
    /\ lastCmd.op = PROTO_CHIP_ERASE
    /\ loc.info[PROTO_DEVICE_BL_REV] = 3
    /\ Len(queried) = PROTO_DEVICE_FW_SIZE

\* the addresses the OTP loop covers, in increasing order
OtpAddresses == [k \in 1..((OtpBytes + 3) \div 4) |-> 4 * (k - 1)]

\* C20: every GET_OTP is for the lowest address not yet read with an accepted
\* footer, so a failure at address a is followed by GET_OTP for a again and
\* the address advances by 4 only after a success; the stage completes only
\* when every address has succeeded, in increasing order.
C20_OtpRetriesSameAddress ==
    [][pc = "otp" /\ Sends =>
          /\ lastCmd' = [op |-> PROTO_GET_OTP, arg |-> 4 * Len(otpOk)]
          /\ otpOk = Take(OtpAddresses, Len(otpOk))
          /\ (pc' # "otp" /\ exitCause' # "stop") => otpOk' = OtpAddresses]_vars

\* address 0 succeeded and the GET_OTP for address 4 failed
C20_Witness ==
    /\ pc = "otp"
    /\ otpOk = <<0>>
    /\ lastCmd = [op |-> PROTO_GET_OTP, arg |-> 4]
    /\ loc.idx = 4

\* C21: after the OTP read the buffer is trusted only if its first 4 bytes
\* are 0x50, 0x58, 0x34, 0x00: with a buffer that differs from the header in
\* at least one position the attempt is abandoned and never goes on to the
\* serial number, the OTP dump event and ERASE.
C21_OtpHeaderChecked ==
    pc \in {"sn", "preErase"} /\ loc.info[PROTO_DEVICE_BL_REV] >= 4 =>
        loc.otpbuf = <<80, 88, 52, 0>>

\* C22: in the serial-number read a chunk failure aborts the attempt, so
\* within one attempt GET_SN is never written twice for the same address.
C22_SnNeverReissued ==
    [][(pc = "sn" /\ lastCmd.op = PROTO_GET_SN /\ Sends /\ lastCmd'.op = PROTO_GET_SN) =>
          lastCmd'.arg # lastCmd.arg]_vars

\* C23: REBOOT is written only when every chunk of the padded payload has
\* been acknowledged since the last acknowledged ERASE; no reply to it is
\* read and no command is written after it (so it is written at most once);
\* done is raised only in the step that wrote REBOOT and released the handle.
C23_RebootLast ==
    [][/\ (Sends /\ lastCmd'.op = PROTO_REBOOT) =>
              /\ flashed = fileData
              /\ eraseOk = "ack"
              /\ Vals(q'.buf) = Vals(q.buf)
              /\ Vals(Unread(q')) = Vals(Unread(q))
              /\ pc' = "exit"
       /\ Sends => lastCmd.op # PROTO_REBOOT
       /\ ("done" \in raised' /\ "done" \notin raised) =>
              /\ Sends /\ lastCmd'.op = PROTO_REBOOT
              /\ m_port' = "deleted"]_vars

\* REBOOT has been written after a session with a re-erase; done is raised
C23_Witness ==
    /\ exitCause = "done"
    /\ lastCmd.op = PROTO_REBOOT
    /\ "done" \in raised
    /\ m_port = "deleted"
    /\ failedChunks = 2

\* C24: the bytes the device write accepted, followed by the bytes still in
\* the outbound queue, are the concatenation of the arrays writeBytes accepted
\* in call order, under every interleaving of writeBytes with the I/O loop and
\* for partial and failed writes: no byte is lost, duplicated or reordered.
C24_QueueIsFifo == link.handed \o link.m_transmitBuffer = link.written

\* a partial write took the first byte of the first array; the second array
\* was appended behind what the write left
C24_Witness == link.handed = <<17>> /\ link.m_transmitBuffer = <<18, 33>>

\* the I/O thread is in the loop of run()
InLoop == link.rpc \in {"top", "dtr", "write", "read"}

\* C25: the stop request connect() issues to a running I/O loop is never
\* lost: while the loop runs, a set stop flag is cleared only by the loop
\* observing it (after which it exits and releases its handle).
C25_StopRequestKept ==
    [][(InLoop /\ link.m_stopp /\ ~link'.m_stopp) =>
          (link.rpc = "top" /\ link'.rpc = "close")]_vars

\* C26: once the I/O loop has exited on a stop request and released the
\* handle, the stop flag is clear, and it stays clear whatever further calls
\* of disconnect() are made: a disconnect() that is not the first changes no
\* transport state.
C26_StopFlagClearedOnExit ==
    (link.rpc = "idle" /\ link.m_port = "null" /\ link.cpc = "ready") => ~link.m_stopp

\* C27: the outbound queue is flushed before the handle is closed: once the
\* I/O loop has released the handle no byte remains in the outbound queue
\* (so none can be transmitted on a later connection).
C27_QueueEmptyAfterRelease ==
    (link.rpc \in {"emit", "idle"} /\ link.m_port = "null") => link.m_transmitBuffer = <<>>

\* this step is the handle test of a writeBytes call
WriteCalled ==
    /\ link.cpc = "ready"
    /\ \/ link'.cpc \in {"w_app", "crashed"}
       \/ link'.cpc = "d_test" /\ link'.cret = "w_err"

\* C28: writeBytes called while no device handle is open fails: it goes on
\* to disconnect() and the communication-error signal, and leaves the
\* outbound queue and the bits-sent counter as they are.
C28_WriteWithoutHandleFails ==
    [][/\ (WriteCalled /\ link.m_port # "open") =>
              /\ link'.cpc = "d_test"
              /\ link'.m_transmitBuffer = link.m_transmitBuffer
              /\ link'.m_bitsSentTotal = link.m_bitsSentTotal
       /\ (link.cret = "w_err" /\ link.cpc \in {"d_test", "d_set", "w_err"}) =>
              /\ link'.cpc \in {"d_test", "d_set", "w_err", "ready"}
              /\ link'.m_transmitBuffer = link.m_transmitBuffer
              /\ link'.m_bitsSentTotal = link.m_bitsSentTotal
              /\ link'.cpc = "ready" => link'.commError]_vars

\* C29: the control line is asserted only by a pass of the loop that did not
\* observe the stop flag and found a request pending, and that pass clears
\* the request; such a pass always asserts it; the line is deasserted by the
\* same pass before anything else of the loop runs. Requests made before the
\* pass coalesce into the one flag, so into one toggle.
C29_ResetIsOneShot ==
    [][/\ (link.rpc = "top" /\ link'.rpc \notin {"top", "crashed"}) =>
              /\ link'.dtr <=> (~link.m_stopp /\ link.m_reqReset)
              /\ link'.dtr => (~link'.m_reqReset /\ link'.rpc = "dtr")
              /\ ~link'.dtr => link'.m_reqReset = link.m_reqReset
       /\ (link'.dtr /\ ~link.dtr) => link.rpc = "top"
       /\ (link.dtr /\ link'.rpc # link.rpc /\ link'.rpc # "crashed") =>
              (~link'.dtr /\ link'.rpc = "write")]_vars

\* the line is asserted and the request cleared, before the pass has come to
\* write the bytes that wait in the outbound queue
C29_Witness ==
    /\ link.dtr
    /\ link.rpc = "dtr"
    /\ ~link.m_reqReset
    /\ link.m_transmitBuffer # <<>>
    /\ link.handed = <<>>

\* C30: getTotalUpstream and getTotalDownstream divide by the elapsed whole
\* seconds only when that number is not zero.
C30_NoDivisionByZero == link.stat.call # "none" => link.stat.divisor # 0

\* C31: each call of getTotalUpstream or getTotalDownstream releases the
\* statistics lock before it returns, so a further call from any thread can
\* take the lock and complete.
C31_StatisticsLockReleased ==
    link.stat.outcome = "returned" => link.statisticsMutex = "free"

\* C32: the per-port baud map records the last-used baud rate of each port:
\* when setPortName switches the link back to a port that was current before,
\* the configured baud rate is the one that was in effect when that port was
\* last current; and no call changes the map entry of a port other than the
\* current one.
C32_BaudRemembered ==
    [][/\ (link'.m_portName # link.m_portName
             /\ link'.m_portName \in DOMAIN link.lastBaud) =>
              link'.m_baud = link.lastBaud[link'.m_portName]
       /\ \A p \in PortNames \ {link'.m_portName} :
              /\ p \in DOMAIN link'.m_portBaudMap <=> p \in DOMAIN link.m_portBaudMap
              /\ p \in DOMAIN link.m_portBaudMap =>
                     link'.m_portBaudMap[p] = link.m_portBaudMap[p]]_vars

\* C33: a flashProgress event is raised by the acknowledged chunk number k
\* (counted from 0 over the programming stage) exactly when k mod 50 = 0; it
\* carries (bytes sent so far, total bytes) with bytes sent so far <= total
\* and total the padded payload length; a step whose chunk failed raises none.
C33_ProgressCadence ==
    [][/\ Len(progress'.events) =
              (progress'.acked + ProgressEvery - 1) \div ProgressEvery
       /\ \A i \in 1..Len(progress'.events) :
              /\ progress'.events[i].chunk = ProgressEvery * (i - 1)
              /\ progress'.events[i].pos <= progress'.events[i].size
              /\ progress'.events[i].size = Len(PadTo4(file.image))
       /\ (failedChunks' # failedChunks) =>
              /\ progress'.events = progress.events
              /\ progress'.acked = progress.acked
       /\ (progress'.acked # progress.acked /\ progress'.acked # 0) =>
              /\ progress'.acked = progress.acked + 1
              /\ flashed' # flashed]_vars

\* chunk number 50 raised the second event, in the pass after two re-erases
C33_Witness ==
    /\ Len(progress.events) = 2
    /\ progress.events[2].chunk = ProgressEvery
    /\ progress.events[2].pos < progress.events[1].pos + ProgressEvery * ChunkSize
    /\ failedChunks = MaxFailure

\* C34: at the moment a command is written the receive accumulator
\* (m_serialBuffer) holds no byte left over from an earlier command, and no
\* byte the device sent before the command was written is taken as part of
\* the command's value or footer.
C34_NoLeftoverAtSend ==
    [][Sends => (q.buf = <<>> /\ ~exch'.staleUsed)]_vars

\* C35: reqInfo reports success only when the 4 value bytes of this query
\* and then a valid footer were received (no read of it timed out, no byte of
\* an earlier exchange was used), and each value published in the
\* bootloader-revision, board-id, board-revision and flash-size events is a
\* value the device returns for that field.
C35_InfoFromThisQuery ==
    [][/\ (pc = "query" /\ Len(queried') > Len(queried)) =>
              (~exch'.timedOut /\ ~exch'.staleUsed)
       /\ ("flashSize" \in raised' /\ "flashSize" \notin raised) =>
              \A f \in PROTO_DEVICE_BL_REV..PROTO_DEVICE_FW_SIZE :
                  loc.info[f] \in DeviceValues(f)]_vars

\* the thread is between the first ERASE and the end of programming
InProgramming == pc \in {"erase", "postErase", "prog", "reerase"}

\* C36: the programming stage always terminates: at most 3 ERASE commands
\* are written (the first and at most two re-erases), at most 3 PROGRAM_MULTI
\* commands fail, and for every device behaviour the stage ends: in done, in
\* the fatal program error or in an erase timeout (or, if stop() was called,
\* at a stop test).
C36_ProgrammingTerminates ==
    /\ [][/\ progress'.erases <= MaxFailure + 1
          /\ failedChunks' <= MaxFailure + 1
          /\ (InProgramming /\ pc' = "exit") =>
                 \/ exitCause' \in {"done", "progFatal", "eraseTimeout"}
                 \/ exitCause' = "stop" /\ m_stop]_vars
    /\ (InProgramming ~> pc = "exit")

\* the third failed PROGRAM_MULTI ended the stage after three ERASE commands
C36_Witness ==
    /\ pc = "exit"
    /\ exitCause = "progFatal"
    /\ progress.erases = MaxFailure + 1
    /\ failedChunks = MaxFailure + 1
    /\ lastCmd.op = PROTO_PROG_MULTI

\* C37: the serial device handle is released exactly once and never used
\* after release: under every interleaving of the I/O loop with the
\* destructor, writeBytes and disconnect(), no thread closes, deletes or
\* writes through m_port while it is NULL or points to a handle that has
\* been deleted.
C37_NoUseAfterRelease == link.misuse \notin {"close", "delete", "write"}
====
